---- MODULE Spec2Model ----
(***************************************************************************)
(* Model of the read / write / subscribe synchronisation protocol of       *)
(* use-storage (src/src/useStorage.tsx, src/src/store/persistent_slice.ts).*)
(*                                                                         *)
(* The reactive store, the storage adapter and the schema registry are     *)
(* external collaborators; they are modelled by their contracts.  Every    *)
(* asynchronous function is split at its awaits: one action up to the      *)
(* adapter call, one action per way the adapter call can settle.           *)
(***************************************************************************)
EXTENDS Integers, FiniteSets, Sequences, TLC

----------------------------------------------------------------------------
(* Bounds *)

NumConsumers == 2       \* components that call useStorage
MaxCalls == 3           \* operations the application performs in one run:
                        \* mount, unmount, refresh and engine / handle calls

Consumers == 1..NumConsumers
CallIds == 1..MaxCalls

----------------------------------------------------------------------------
(* Values.  A substate is an object with the fields f and g; undefined,    *)
(* null and a rejected promise are tagged records.                         *)

Undef == [t |-> "undefined"]
Null == [t |-> "null"]
Rejected == [t |-> "rejected"]

V0 == [f |-> 0, g |-> 0]
V1 == [f |-> 1, g |-> 0]
V2 == [f |-> 0, g |-> 1]
Corrupt == [f |-> 2, g |-> 0]      \* an object the schemas reject

\* the namespaces of the registered schema
Files == {"settings", "session"}

\* "settings" is registered with .default(V0); "session" has neither a
\* default nor .optional()
HasDefault(file) == file = "settings"

IsNullish(x) == x = Undef \/ x = Null

IsObject(x) == DOMAIN x = {"f", "g"}

SchemaAccepts(x) == IsObject(x) /\ x.f \in {0, 1} /\ x.g \in {0, 1}

\* storageSchema[file].safeParse(x)
safeParse(file, x) ==
    IF x = Undef
    THEN IF HasDefault(file)
         THEN [success |-> TRUE, data |-> V0]
         ELSE [success |-> FALSE, data |-> Undef]
    ELSE IF x # Null /\ SchemaAccepts(x)
         THEN [success |-> TRUE, data |-> x]
         ELSE [success |-> FALSE, data |-> Undef]

\* data ?? undefined
Coalesce(x) == IF IsNullish(x) THEN Undef ELSE x

\* candidate values handed to write
WriteInputs == {V1, V2, Corrupt}

\* partial objects handed to merge; undefined for a missing argument
MergeInputs == {[f |-> 1], [g |-> 1], Undef}

\* what the backend may hold when the process starts: nothing, a value
\* written by an earlier run, or one that no longer matches the schema
StoredInputs ==
    {d \in [Files -> {Null, V2, Corrupt}] : d["session"] # Corrupt}

----------------------------------------------------------------------------
(* State *)

VARIABLES
    STATE_READ,     \* module flag: the initial read has settled
    STATE_LOCKED,   \* module flag: the initial read has been issued
    persisted,      \* store.getState().persisted : file -> value | undefined
    disk,           \* the adapter's backend : file -> raw | null
    hooks,          \* per consumer: the state of its useStorage instance
    tasks,          \* per call id: the suspended engine call, if any
    calls,          \* number of operations the application has performed
    effectReads,    \* adapter.readFile calls issued by the load effect
    event,          \* what the last step did (observation only)
    good            \* ghost: per file, the values the initial load committed
                    \* and those of the writes whose adapter call succeeded

vars == <<STATE_READ, STATE_LOCKED, persisted, disk, hooks, tasks, calls,
          effectReads, event, good>>

NoTask == [kind |-> "none"]
NoEvent == [op |-> "none"]

\* useState initial values of a component that has not rendered yet
NewHook == [phase |-> "new", file |-> "settings", initialized |-> FALSE,
            refreshCounter |-> 0, state |-> Undef, loads |-> 0]

Init ==
    /\ STATE_READ = FALSE
    /\ STATE_LOCKED = FALSE
    /\ persisted = [n \in Files |-> Undef]
    /\ disk \in StoredInputs
    /\ hooks = [c \in Consumers |-> NewHook]
    /\ tasks = [i \in CallIds |-> NoTask]
    /\ calls = 0
    /\ effectReads = 0
    /\ event = NoEvent
    /\ good = [n \in Files |-> {}]

----------------------------------------------------------------------------
(* Shared cache store *)

\* reducer setField: state[key] = subState
setField(st, key, subState) == [st EXCEPT ![key] = subState]

\* a variant whose subscription is never cancelled
ListenerNeverUnsubscribed(h, st, read) ==
    IF read
    THEN [h EXCEPT !.initialized = TRUE, !.state = st[h.file]]
    ELSE h

\* the store.subscribe listener of one consumer, run after a dispatch;
\* "value !== state" compares a substate with the root state, so it is
\* always true
Listener(h, st, read) ==
    IF h.phase = "mounted" /\ read
    THEN [h EXCEPT !.initialized = TRUE, !.state = st[h.file]]
    ELSE h

\* the store calls every registered listener after every dispatch
NotifyAll(hs, st, read) == [c \in Consumers |-> Listener(hs[c], st, read)]

\* ghost: a dispatch on key by someone else invalidates the "nothing else
\* happened on this namespace" flag of the suspended write / clear calls
Touch(ts, key, self) ==
    [i \in CallIds |->
        IF i # self /\ ts[i].kind \in {"write", "clear"} /\ ts[i].file = key
        THEN [ts[i] EXCEPT !.clean = FALSE]
        ELSE ts[i]]

----------------------------------------------------------------------------
(* Storage adapter (external): the backend keeps one raw value per file    *)

\* adapter.readFile(file), when it resolves
readFile(file) == disk[file]

\* adapter.writeFile(file, data), when it resolves
writeFile(d, file, data) == [d EXCEPT ![file] = data]

\* adapter.clearFile(file), when it resolves
clearFile(d, file) == [d EXCEPT ![file] = Null]

----------------------------------------------------------------------------
(* readStorageFile, after "await adapter.readFile(file)" has resolved with *)
(* data and up to the await of options.onCorrupt.  onCorrupt is "none"     *)
(* (not supplied), "ok" (resolves) or "fails" (throws or rejects).         *)

\* a variant that returns null on a validation failure without calling
\* options.onCorrupt
AfterReadSilent(file, data, onCorrupt) ==
    LET parseResult == safeParse(file, Coalesce(data)) IN
    IF parseResult.success
    THEN [pc |-> "return", result |-> parseResult.data, corruptArgs |-> <<>>]
    ELSE [pc |-> "return", result |-> Null, corruptArgs |-> <<>>]

\* a variant that returns the raw value without validating it
AfterReadUnvalidated(file, data, onCorrupt) ==
    [pc |-> "return", result |-> Coalesce(data), corruptArgs |-> <<>>]

AfterRead(file, data, onCorrupt) ==
    LET parseResult == safeParse(file, Coalesce(data)) IN
    IF parseResult.success
    THEN [pc |-> "return", result |-> parseResult.data, corruptArgs |-> <<>>]
    ELSE IF onCorrupt = "none"
         THEN [pc |-> "return", result |-> Null, corruptArgs |-> <<>>]
         ELSE [pc |-> "onCorrupt", result |-> Null, corruptArgs |-> <<data>>]

----------------------------------------------------------------------------
(* useStorage *)

\* a variant of the guard that does not look at STATE_LOCKED
loadGuardUnlocked == ~STATE_READ

\* the guard of the load effect
loadGuard == ~STATE_READ /\ ~STATE_LOCKED

\* the value the handle returns: the hook state, or the default of the
\* namespace when the state is null or undefined
HandleValue(file, state) ==
    IF IsNullish(state)
    THEN LET defaultValue == safeParse(file, Undef)
         IN IF defaultValue.success THEN defaultValue.data ELSE state
    ELSE state

\* the effect keyed on refreshCounter, run for the hook state h
LoadEffect(h) ==
    IF loadGuard
    THEN [hook |-> [h EXCEPT !.loads = @ + 1], locked |-> TRUE, issued |-> 1]
    ELSE [hook |-> [h EXCEPT !.initialized = TRUE,
                             !.state = persisted[h.file]],
          locked |-> STATE_LOCKED, issued |-> 0]

\* ghost: the load state the spec speaks of
LoadState ==
    IF STATE_READ THEN "Done"
    ELSE IF STATE_LOCKED THEN "InFlight" ELSE "NotStarted"

\* a component calls useStorage(file) for the first time: first render,
\* then the load effect, then the subscribe effect
Mount(c, file) ==
    /\ hooks[c].phase = "new"
    /\ \A b \in Consumers : b < c => hooks[b].phase # "new"
    /\ calls < MaxCalls
    /\ calls' = calls + 1
    /\ LET h0 == [NewHook EXCEPT !.phase = "mounted", !.file = file]
           e == LoadEffect(h0)
       IN /\ hooks' = [hooks EXCEPT ![c] = e.hook]
          /\ STATE_LOCKED' = e.locked
          /\ effectReads' = effectReads + e.issued
          /\ event' = [op |-> "mount", before |-> LoadState,
                       issued |-> e.issued]
    /\ UNCHANGED <<STATE_READ, persisted, disk, tasks, good>>

\* the component is removed: the subscribe effect's cleanup runs
Unmount(c) ==
    /\ hooks[c].phase = "mounted"
    /\ calls < MaxCalls
    /\ calls' = calls + 1
    /\ hooks' = [hooks EXCEPT ![c].phase = "unmounted"]
    /\ event' = NoEvent
    /\ UNCHANGED <<STATE_READ, STATE_LOCKED, persisted, disk, tasks,
                   effectReads, good>>

\* handle.refresh(): setRefreshCounter, re-render, the load effect re-runs
Refresh(c) ==
    /\ hooks[c].phase = "mounted"
    /\ calls < MaxCalls
    /\ calls' = calls + 1
    /\ LET h0 == [hooks[c] EXCEPT !.refreshCounter = @ + 1]
           e == LoadEffect(h0)
       IN /\ hooks' = [hooks EXCEPT ![c] = e.hook]
          /\ STATE_LOCKED' = e.locked
          /\ effectReads' = effectReads + e.issued
          /\ event' = [op |-> "refresh", before |-> LoadState,
                       issued |-> e.issued]
    /\ UNCHANGED <<STATE_READ, persisted, disk, tasks, good>>

\* the read issued by the load effect of c resolves: readStorageFile
\* returns and the .then continuation runs
InitialReadResolves(c) ==
    /\ hooks[c].loads > 0
    /\ LET file == hooks[c].file
           parsed == AfterRead(file, readFile(file), "none").result
           hs == [hooks EXCEPT ![c].loads = @ - 1,
                               ![c].initialized =
                                   IF hooks[c].phase = "mounted"
                                   THEN TRUE ELSE @]
       IN /\ STATE_READ' = TRUE
          /\ IF IsNullish(parsed)
             THEN /\ hooks' = hs
                  /\ UNCHANGED <<persisted, tasks, good>>
             ELSE /\ persisted' = setField(persisted, file, parsed)
                  /\ hooks' = NotifyAll(hs, persisted', TRUE)
                  /\ tasks' = Touch(tasks, file, 0)
                  /\ good' = [good EXCEPT ![file] = @ \cup {parsed}]
          /\ event' = [op |-> "loaded", result |-> parsed]
    /\ UNCHANGED <<STATE_LOCKED, disk, calls, effectReads>>

\* the read issued by the load effect of c rejects: readStorageFile
\* rejects, the .then continuation is skipped
InitialReadRejects(c) ==
    /\ hooks[c].loads > 0
    /\ hooks' = [hooks EXCEPT ![c].loads = @ - 1]
    /\ event' = [op |-> "loaded", result |-> Rejected]
    /\ UNCHANGED <<STATE_READ, STATE_LOCKED, persisted, disk, tasks, calls,
                   effectReads, good>>

----------------------------------------------------------------------------
(* writeStorageFile.  caller is 0 for a direct engine call and the         *)
(* consumer for a call through its handle.                                 *)

\* a variant without the validation
parseReturnsAlways(file, data) == TRUE

\* storageSchema[file].parse(data) returns (does not throw)
parseReturns(file, data) == safeParse(file, data).success

\* a variant of the catch block that rolls back only while the entry still
\* is the value this call committed
writeCatchIfCurrent(st, task) ==
    IF st[task.file] = task.data
    THEN setField(st, task.file, task.previousState)
    ELSE st

\* a variant of the catch block that keeps the optimistic value
writeCatchKeep(st, task) == st

\* the catch block: dispatch(setField({key: file, subState: previousState}))
writeCatch(st, task) == setField(st, task.file, task.previousState)

\* handle.write: async state => await writeStorageFile(file, state)
handleWrite(result) == result

\* the call up to "await adapter.writeFile(file, data)"
WriteCall(caller, file, data) ==
    /\ calls < MaxCalls
    /\ calls' = calls + 1
    /\ IF ~parseReturns(file, data)
       THEN /\ event' = [op |-> "write", handle |-> caller # 0,
                         file |-> file, data |-> data,
                         result |-> IF caller = 0 THEN "rejected"
                                    ELSE handleWrite("rejected"),
                         dispatches |-> 0, writeFileCalls |-> 0,
                         cacheBefore |-> persisted, diskBefore |-> disk,
                         hooksBefore |-> hooks, tasksBefore |-> tasks]
            /\ UNCHANGED <<persisted, hooks, tasks>>
       ELSE /\ persisted' = setField(persisted, file, data)
            /\ hooks' = NotifyAll(hooks, persisted', STATE_READ)
            /\ tasks' = [Touch(tasks, file, calls + 1) EXCEPT
                            ![calls + 1] =
                                [kind |-> "write", file |-> file,
                                 data |-> data,
                                 previousState |-> persisted[file],
                                 clean |-> TRUE]]
            /\ event' = [op |-> "write", handle |-> caller # 0,
                         file |-> file, data |-> data,
                         result |-> "pending",
                         dispatches |-> 1, writeFileCalls |-> 1]
    /\ UNCHANGED <<STATE_READ, STATE_LOCKED, disk, effectReads, good>>

\* writeStorageFile(file, data) called directly
writeStorageFile(file, data) == WriteCall(0, file, data)

\* handle.write(data) of a mounted consumer
HandleWrite(c, data) ==
    /\ hooks[c].phase = "mounted"
    /\ WriteCall(c, hooks[c].file, data)

\* adapter.writeFile resolves: return true
WriteResolves(i) ==
    /\ tasks[i].kind = "write"
    /\ disk' = writeFile(disk, tasks[i].file, tasks[i].data)
    /\ tasks' = [tasks EXCEPT ![i] = NoTask]
    /\ event' = [op |-> "writeReturn", file |-> tasks[i].file,
                 data |-> tasks[i].data,
                 previousState |-> tasks[i].previousState,
                 clean |-> tasks[i].clean, adapterOk |-> TRUE,
                 result |-> "true"]
    /\ good' = [good EXCEPT ![tasks[i].file] = @ \cup {tasks[i].data}]
    /\ UNCHANGED <<STATE_READ, STATE_LOCKED, persisted, hooks, calls,
                   effectReads>>

\* adapter.writeFile rejects: roll back, return false
WriteRejects(i) ==
    /\ tasks[i].kind = "write"
    /\ persisted' = writeCatch(persisted, tasks[i])
    /\ hooks' = NotifyAll(hooks, persisted', STATE_READ)
    /\ tasks' = [Touch(tasks, tasks[i].file, i) EXCEPT ![i] = NoTask]
    /\ event' = [op |-> "writeReturn", file |-> tasks[i].file,
                 data |-> tasks[i].data,
                 previousState |-> tasks[i].previousState,
                 clean |-> tasks[i].clean, adapterOk |-> FALSE,
                 result |-> "false"]
    /\ UNCHANGED <<STATE_READ, STATE_LOCKED, disk, calls, effectReads, good>>

----------------------------------------------------------------------------
(* handle.merge *)

\* getStateOrDefault(): state is the hook state of the render that made
\* the handle
getStateOrDefault(file, state) ==
    IF IsNullish(state)
    THEN LET oldStateResult == safeParse(file, Undef)
         IN IF oldStateResult.success THEN oldStateResult.data ELSE Undef
    ELSE state

\* {...base, ...updatedFields}
Spread(base, updatedFields) ==
    LET keys == (IF IsNullish(base) THEN {} ELSE DOMAIN base)
                    \cup DOMAIN updatedFields
    IN [k \in keys |->
           IF k \in DOMAIN updatedFields THEN updatedFields[k] ELSE base[k]]

\* writeStorageFile up to its await, as a function of the store, the hook
\* states and the suspended calls in s; id is the call id
WriteStart(s, id, file, data) ==
    IF ~parseReturns(file, data)
    THEN s
    ELSE LET st == setField(s.persisted, file, data)
         IN [persisted |-> st,
             hooks |-> NotifyAll(s.hooks, st, STATE_READ),
             tasks |-> [Touch(s.tasks, file, id) EXCEPT
                           ![id] = [kind |-> "write", file |-> file,
                                    data |-> data,
                                    previousState |-> s.persisted[file],
                                    clean |-> TRUE]]]

\* one merge call of a handle whose render saw the hook state h
MergeStart(s, id, h, updatedFields) ==
    IF updatedFields = Undef
    THEN s
    ELSE WriteStart(s, id, h.file,
                    Spread(getStateOrDefault(h.file, h.state),
                           updatedFields))

\* the merge calls us, issued one after the other from the handle that
\* consumer c holds, each up to its first await; the event is that of the
\* last call
MergeCalls(c, us) ==
    /\ hooks[c].phase = "mounted"
    /\ calls + Len(us) <= MaxCalls
    /\ calls' = calls + Len(us)
    /\ LET h == hooks[c]
           s0 == [persisted |-> persisted, hooks |-> hooks, tasks |-> tasks]
           s1 == MergeStart(s0, calls + 1, h, us[1])
           before == IF Len(us) = 1 THEN s0 ELSE s1
           after == IF Len(us) = 1 THEN s1
                    ELSE MergeStart(s1, calls + 2, h, us[2])
           last == us[Len(us)]
           data == IF last = Undef THEN Undef
                   ELSE Spread(getStateOrDefault(h.file, h.state), last)
       IN /\ persisted' = after.persisted
          /\ hooks' = after.hooks
          /\ tasks' = after.tasks
          /\ event' = [op |-> "merge", file |-> h.file,
                       updatedFields |-> last,
                       before |-> before.persisted[h.file],
                       data |-> data,
                       issued |-> Len(us),
                       result |-> IF last = Undef THEN "undefined"
                                  ELSE IF parseReturns(h.file, data)
                                       THEN "pending" ELSE "rejected"]
    /\ UNCHANGED <<STATE_READ, STATE_LOCKED, disk, effectReads, good>>

\* handle.merge(updatedFields) of a mounted consumer
HandleMerge(c, updatedFields) == MergeCalls(c, <<updatedFields>>)

\* handle.merge(first); handle.merge(second) with the same handle
HandleMergeTwice(c, first, second) == MergeCalls(c, <<first, second>>)

----------------------------------------------------------------------------
(* clearStorageFile *)

\* a variant of the catch block that leaves the entry absent
clearCatchKeep(st, task) == st

\* the catch block: dispatch(setField({key: file, subState: previousState}))
clearCatch(st, task) == setField(st, task.file, task.previousState)

\* the call up to "await adapter.clearFile(file)"
ClearCall(caller, file) ==
    /\ calls < MaxCalls
    /\ calls' = calls + 1
    /\ persisted' = setField(persisted, file, Undef)
    /\ hooks' = NotifyAll(hooks, persisted', STATE_READ)
    /\ tasks' = [Touch(tasks, file, calls + 1) EXCEPT
                    ![calls + 1] =
                        [kind |-> "clear", file |-> file,
                         previousState |-> persisted[file],
                         clean |-> TRUE]]
    /\ event' = [op |-> "clear", file |-> file,
                 previousState |-> persisted[file]]
    /\ UNCHANGED <<STATE_READ, STATE_LOCKED, disk, effectReads, good>>

\* clearStorageFile(file) called directly
clearStorageFile(file) == ClearCall(0, file)

\* handle.clear() of a mounted consumer
HandleClear(c) ==
    /\ hooks[c].phase = "mounted"
    /\ ClearCall(c, hooks[c].file)

\* adapter.clearFile resolves: return true
ClearResolves(i) ==
    /\ tasks[i].kind = "clear"
    /\ disk' = clearFile(disk, tasks[i].file)
    /\ tasks' = [tasks EXCEPT ![i] = NoTask]
    /\ event' = [op |-> "clearReturn", file |-> tasks[i].file,
                 previousState |-> tasks[i].previousState,
                 clean |-> tasks[i].clean, adapterOk |-> TRUE,
                 result |-> "true"]
    /\ UNCHANGED <<STATE_READ, STATE_LOCKED, persisted, hooks, calls,
                   effectReads, good>>

\* adapter.clearFile rejects: roll back, return false
ClearRejects(i) ==
    /\ tasks[i].kind = "clear"
    /\ persisted' = clearCatch(persisted, tasks[i])
    /\ hooks' = NotifyAll(hooks, persisted', STATE_READ)
    /\ tasks' = [Touch(tasks, tasks[i].file, i) EXCEPT ![i] = NoTask]
    /\ event' = [op |-> "clearReturn", file |-> tasks[i].file,
                 previousState |-> tasks[i].previousState,
                 clean |-> tasks[i].clean, adapterOk |-> FALSE,
                 result |-> "false"]
    /\ UNCHANGED <<STATE_READ, STATE_LOCKED, disk, calls, effectReads, good>>

----------------------------------------------------------------------------
(* readStorageFile called directly, with options                           *)
(*   clearOnCorrupt: TRUE, or FALSE for false / absent                     *)
(*   onCorrupt: "none" (absent), "ok" (resolves), "fails" (throws/rejects) *)

OnCorruptKinds == {"none", "ok", "fails"}

\* the catch block: if (options?.clearOnCorrupt === true) adapter.clearFile
catchClears(clearOnCorrupt) == clearOnCorrupt = TRUE

\* the call up to "await adapter.readFile(file)"
readStorageFile(file, clearOnCorrupt, onCorrupt) ==
    /\ calls < MaxCalls
    /\ \A i \in CallIds : tasks[i].kind # "read"    \* one read at a time
    /\ calls' = calls + 1
    /\ tasks' = [tasks EXCEPT ![calls + 1] =
                    [kind |-> "read", file |-> file, pc |-> "adapter",
                     clearOnCorrupt |-> clearOnCorrupt,
                     onCorrupt |-> onCorrupt, data |-> Undef,
                     corruptArgs |-> <<>>]]
    /\ event' = NoEvent
    /\ UNCHANGED <<STATE_READ, STATE_LOCKED, persisted, disk, hooks,
                   effectReads, good>>

\* adapter.readFile resolves: validate, then return or await onCorrupt
ReadResolves(i) ==
    /\ tasks[i].kind = "read"
    /\ tasks[i].pc = "adapter"
    /\ LET t == tasks[i]
           data == readFile(t.file)
           r == AfterRead(t.file, data, t.onCorrupt)
       IN IF r.pc = "return"
          THEN /\ tasks' = [tasks EXCEPT ![i] = NoTask]
               /\ event' = [op |-> "readReturn", file |-> t.file,
                            data |-> data, result |-> r.result,
                            cache |-> persisted,
                            corruptArgs |-> r.corruptArgs,
                            clearOnCorrupt |-> t.clearOnCorrupt,
                            onCorrupt |-> t.onCorrupt,
                            clearFileCalls |-> 0]
          ELSE /\ tasks' = [tasks EXCEPT ![i] =
                               [t EXCEPT !.pc = "onCorrupt",
                                         !.data = data,
                                         !.corruptArgs = r.corruptArgs]]
               /\ event' = [op |-> "onCorrupt", file |-> t.file,
                            arg |-> data, cache |-> persisted]
    /\ UNCHANGED <<STATE_READ, STATE_LOCKED, persisted, disk, hooks, calls,
                   effectReads, good>>

\* adapter.readFile rejects: the await is outside the try block
ReadRejects(i) ==
    /\ tasks[i].kind = "read"
    /\ tasks[i].pc = "adapter"
    /\ tasks' = [tasks EXCEPT ![i] = NoTask]
    /\ event' = [op |-> "readReturn", file |-> tasks[i].file,
                 data |-> Rejected, result |-> Rejected,
                 cache |-> persisted, corruptArgs |-> <<>>,
                 clearOnCorrupt |-> tasks[i].clearOnCorrupt,
                 onCorrupt |-> tasks[i].onCorrupt,
                 clearFileCalls |-> 0]
    /\ UNCHANGED <<STATE_READ, STATE_LOCKED, persisted, disk, hooks, calls,
                   effectReads, good>>

\* the awaited onCorrupt callback settles: return null, through the catch
\* block when it failed
OnCorruptSettles(i) ==
    /\ tasks[i].kind = "read"
    /\ tasks[i].pc = "onCorrupt"
    /\ LET t == tasks[i]
           clears == t.onCorrupt = "fails" /\ catchClears(t.clearOnCorrupt)
       IN /\ tasks' = [tasks EXCEPT ![i] =
                          IF clears
                          THEN [kind |-> "clearFile", file |-> t.file]
                          ELSE NoTask]
          /\ event' = [op |-> "readReturn", file |-> t.file,
                       data |-> t.data, result |-> Null,
                       cache |-> persisted,
                       corruptArgs |-> t.corruptArgs,
                       clearOnCorrupt |-> t.clearOnCorrupt,
                       onCorrupt |-> t.onCorrupt,
                       clearFileCalls |-> IF clears THEN 1 ELSE 0]
    /\ UNCHANGED <<STATE_READ, STATE_LOCKED, persisted, disk, hooks, calls,
                   effectReads, good>>

\* the un-awaited adapter.clearFile of the catch block settles
DetachedClearSettles(i) ==
    /\ tasks[i].kind = "clearFile"
    /\ \E ok \in BOOLEAN :
          disk' = IF ok THEN clearFile(disk, tasks[i].file) ELSE disk
    /\ tasks' = [tasks EXCEPT ![i] = NoTask]
    /\ event' = NoEvent
    /\ UNCHANGED <<STATE_READ, STATE_LOCKED, persisted, hooks, calls,
                   effectReads, good>>

----------------------------------------------------------------------------

Next ==
    \/ \E c \in Consumers, file \in Files : Mount(c, file)
    \/ \E c \in Consumers : Unmount(c)
    \/ \E c \in Consumers : Refresh(c)
    \/ \E c \in Consumers : InitialReadResolves(c)
    \/ \E c \in Consumers : InitialReadRejects(c)
    \/ \E file \in Files, data \in WriteInputs : writeStorageFile(file, data)
    \/ \E c \in Consumers, data \in WriteInputs : HandleWrite(c, data)
    \/ \E c \in Consumers, updatedFields \in MergeInputs :
          HandleMerge(c, updatedFields)
    \/ \E c \in Consumers, first, second \in MergeInputs \ {Undef} :
          HandleMergeTwice(c, first, second)
    \/ \E i \in CallIds : WriteResolves(i)
    \/ \E i \in CallIds : WriteRejects(i)
    \/ \E file \in Files : clearStorageFile(file)
    \/ \E c \in Consumers : HandleClear(c)
    \/ \E i \in CallIds : ClearResolves(i)
    \/ \E i \in CallIds : ClearRejects(i)

Spec == Init /\ [][Next]_vars

\* direct engine calls only: reads with options next to writes and clears
NextRead ==
    \/ \E file \in Files, clearOnCorrupt \in BOOLEAN,
          onCorrupt \in OnCorruptKinds :
              readStorageFile(file, clearOnCorrupt, onCorrupt)
    \/ \E i \in CallIds : ReadResolves(i)
    \/ \E i \in CallIds : ReadRejects(i)
    \/ \E i \in CallIds : OnCorruptSettles(i)
    \/ \E i \in CallIds : DetachedClearSettles(i)
    \/ \E file \in Files, data \in WriteInputs : writeStorageFile(file, data)
    \/ \E i \in CallIds : WriteResolves(i)
    \/ \E i \in CallIds : WriteRejects(i)

SpecRead == Init /\ [][NextRead]_vars

\* the runs in which no adapter call fails
NextNoFail ==
    \/ \E c \in Consumers, file \in Files : Mount(c, file)
    \/ \E c \in Consumers : Unmount(c)
    \/ \E c \in Consumers : Refresh(c)
    \/ \E c \in Consumers : InitialReadResolves(c)
    \/ \E file \in Files, data \in WriteInputs : writeStorageFile(file, data)
    \/ \E c \in Consumers, data \in WriteInputs : HandleWrite(c, data)
    \/ \E c \in Consumers, updatedFields \in MergeInputs :
          HandleMerge(c, updatedFields)
    \/ \E c \in Consumers, first, second \in MergeInputs \ {Undef} :
          HandleMergeTwice(c, first, second)
    \/ \E i \in CallIds : WriteResolves(i)
    \/ \E file \in Files : clearStorageFile(file)
    \/ \E c \in Consumers : HandleClear(c)
    \/ \E i \in CallIds : ClearResolves(i)

SpecNoFail == Init /\ [][NextNoFail]_vars

----------------------------------------------------------------------------
(* Properties *)

Mounted(c) == hooks[c].phase = "mounted"

\* nothing is outstanding: no effect read and no engine call is suspended
Quiescent ==
    /\ \A c \in Consumers : hooks[c].loads = 0
    /\ \A i \in CallIds : tasks[i] = NoTask

\* the only operations performed so far are mounts
OnlyMounts ==
    /\ \A c \in Consumers :
          hooks[c].phase \in {"new", "mounted"} /\ hooks[c].refreshCounter = 0
    /\ calls = Cardinality({c \in Consumers : Mounted(c)})

\* a raw value that is present in the backend and fails the schema of file
IsCorruptRaw(file, x) ==
    x # Rejected /\ ~IsNullish(x) /\ ~safeParse(file, x).success

\* C1: singleton load.  The load effect issues at most one adapter.readFile
\* call in the whole process; once any consumer has mounted exactly one has
\* been issued; a mount or refresh that runs while the read is outstanding
\* issues none.
C1_SingletonLoad ==
    /\ effectReads <= 1
    /\ (\E c \in Consumers : hooks[c].phase # "new") => effectReads = 1
    /\ (event.op \in {"mount", "refresh"} /\ event.before = "InFlight")
           => event.issued = 0

\* two consumers of the same namespace are mounted, the second mounted
\* while the read of the first was still outstanding
C1_Witness ==
    /\ event.op = "mount"
    /\ event.before = "InFlight"
    /\ ~STATE_READ
    /\ \E a, b \in Consumers :
          /\ a # b
          /\ Mounted(a) /\ Mounted(b)
          /\ hooks[a].file = hooks[b].file
          /\ hooks[a].loads = 1

\* C2: rollback invariant.  When writeStorageFile returns after its adapter
\* write failed and nothing else was dispatched on the namespace since its
\* optimistic commit, the cache entry is the captured previous value and the
\* call returns false.
C2_Rollback ==
    (event.op = "writeReturn" /\ ~event.adapterOk /\ event.clean)
        => /\ persisted[event.file] = event.previousState
           /\ event.result = "false"

\* a failed write of v1 over a different, present value v0 has returned
C2_Witness ==
    /\ event.op = "writeReturn"
    /\ ~event.adapterOk
    /\ event.clean
    /\ event.previousState \notin {Undef, event.data}
    /\ persisted[event.file] = event.previousState

\* C3: validation gate.  A write call commits its candidate to the cache and
\* hands it to adapter.writeFile exactly when the validator accepts it, and
\* the backend then holds it once the adapter write resolves; a rejected
\* candidate causes no dispatch, no adapter call and no change of the cache,
\* the backend or any consumer.
C3_ValidationGate ==
    /\ event.op = "write" =>
          IF safeParse(event.file, event.data).success
          THEN /\ event.dispatches = 1
               /\ event.writeFileCalls = 1
               /\ persisted[event.file] = event.data
               /\ \E i \in CallIds :
                     /\ tasks[i].kind = "write"
                     /\ tasks[i].file = event.file
                     /\ tasks[i].data = event.data
          ELSE /\ event.dispatches = 0
               /\ event.writeFileCalls = 0
               /\ persisted = event.cacheBefore
               /\ disk = event.diskBefore
               /\ hooks = event.hooksBefore
               /\ tasks = event.tasksBefore
    /\ event.op = "writeReturn" =>
          /\ safeParse(event.file, event.data).success
          /\ event.adapterOk => disk[event.file] = event.data

\* a rejected candidate was written while a consumer of the namespace was
\* subscribed and receiving notifications
C3_Witness ==
    /\ event.op = "write"
    /\ ~safeParse(event.file, event.data).success
    /\ STATE_READ
    /\ \E c \in Consumers : Mounted(c) /\ hooks[c].file = event.file

\* C4: a write through the handle with a candidate the validator rejects
\* completes with false.
C4_HandleWriteDowngrades ==
    (event.op = "write" /\ event.handle
        /\ ~safeParse(event.file, event.data).success)
        => event.result = "false"

\* C5: when adapter.readFile rejects, readStorageFile resolves with null.
C5_ReadFailureSwallowed ==
    (event.op = "readReturn" /\ event.data = Rejected)
        => event.result = Null

\* C6: when the backend holds nothing for the namespace, readStorageFile
\* yields null or the default of the namespace and onCorrupt is not invoked.
C6_AbsentIsNull ==
    (event.op = "readReturn" /\ event.data = Null)
        => /\ event.result = (IF HasDefault(event.file) THEN V0 ELSE Null)
           /\ event.corruptArgs = <<>>

\* C7: corrupt round trip.  When the backend holds a raw value the validator
\* rejects, readStorageFile resolves with null, has invoked the supplied
\* onCorrupt exactly once, with that raw value, and no step of it changes
\* the cache.
C7_CorruptRoundTrip ==
    /\ (event.op = "readReturn" /\ IsCorruptRaw(event.file, event.data))
          => /\ event.result = Null
             /\ event.corruptArgs =
                   IF event.onCorrupt = "none" THEN <<>> ELSE <<event.data>>
    /\ event.op \in {"readReturn", "onCorrupt"} => persisted = event.cache

\* a read with onCorrupt of a corrupt stored value has returned while the
\* cache entry of that namespace holds a value
C7_Witness ==
    /\ event.op = "readReturn"
    /\ event.data = Corrupt
    /\ event.onCorrupt # "none"
    /\ event.corruptArgs = <<Corrupt>>
    /\ event.result = Null
    /\ persisted[event.file] # Undef

\* C8: when the value read fails validation, adapter.clearFile is issued
\* exactly when clearOnCorrupt is true.
C8_ClearOnCorrupt ==
    (event.op = "readReturn" /\ IsCorruptRaw(event.file, event.data))
        => (event.clearFileCalls = 1 <=> event.clearOnCorrupt)

\* C9: refresh() causes a new adapter.readFile in every load state.
C9_RefreshReads ==
    event.op = "refresh" => event.issued = 1

\* C10: a handle's initialized flag is true only when the initial read has
\* settled.
C10_InitializedMeansSettled ==
    \A c \in Consumers : hooks[c].initialized => STATE_READ

\* the cache entry of n is changed by this step and, when onlyDone is set
\* the load state is Done: after the step every subscribed handle of n
\* holds the new cache value
Delivered(n, onlyDone) ==
    (persisted'[n] # persisted[n] /\ (onlyDone => STATE_READ'))
        => \A c \in Consumers :
              (hooks'[c].phase = "mounted" /\ hooks'[c].file = n)
                  => hooks'[c].state = persisted'[n]

\* a handle that has unsubscribed keeps the state it had
UnsubscribedUntouched ==
    \A c \in Consumers :
        hooks[c].phase = "unmounted"
            => /\ hooks'[c].state = hooks[c].state
               /\ hooks'[c].initialized = hooks[c].initialized

\* C11: subscription fan-out.  Once the load state is Done, every step that
\* changes the cache entry of a namespace n (write, merge, clear, rollback,
\* load commit) leaves every subscribed handle of n with the new cache
\* value; while the initial read has not settled the listeners ignore the
\* notification.  A handle that has unsubscribed is never changed again.
C11_FanOut ==
    [][(\A n \in Files : Delivered(n, TRUE)) /\ UnsubscribedUntouched]_vars

\* the load commit was delivered to the subscribed handle of the namespace
\* and not to one that had unsubscribed while the read was outstanding
C11_Witness ==
    /\ event.op = "loaded"
    /\ STATE_READ
    /\ \E a, b \in Consumers :
          /\ Mounted(a)
          /\ hooks[a].state = persisted[hooks[a].file]
          /\ hooks[a].state # Undef
          /\ hooks[b].phase = "unmounted"
          /\ hooks[b].file = hooks[a].file
          /\ hooks[b].state # persisted[hooks[b].file]

\* C11 as stated: the delivery holds in every load state.
C11_FanOutEveryLoadState ==
    [][(\A n \in Files : Delivered(n, FALSE)) /\ UnsubscribedUntouched]_vars

\* C12: merge semantics.  After handle.merge(updatedFields) on a namespace
\* whose cache entry or default exists, the call is not rejected and the
\* cache entry is the value the namespace had immediately before that call
\* (its cache value, or the default when absent) with only the given fields
\* replaced; so two merges of different fields issued one after the other
\* from the same handle both remain.
C12_MergeKeepsOtherFields ==
    (event.op = "merge" /\ event.updatedFields # Undef
        /\ getStateOrDefault(event.file, event.before) # Undef)
        => /\ event.result # "rejected"
           /\ persisted[event.file] =
                  Spread(getStateOrDefault(event.file, event.before),
                         event.updatedFields)

C14_EveryNamespaceLoaded ==
    (STATE_READ /\ Quiescent /\ OnlyMounts)
        => \A c \in Consumers :
              (Mounted(c) /\ SchemaAccepts(disk[hooks[c].file]))
                  => HandleValue(hooks[c].file, hooks[c].state)
                         = disk[hooks[c].file]

\* C15: last-known-good after failure.  Once every write and clear call has
\* returned, the cache entry of each namespace is absent, a value the
\* initial load committed, or the value of a write whose adapter call
\* succeeded.
C15_LastKnownGood ==
    (\A i \in CallIds : tasks[i] = NoTask)
        => \A n \in Files : persisted[n] = Undef \/ persisted[n] \in good[n]

\* C16: in-flight mounters catch up.  Consumer 1 is the one whose mount
\* issues the initial read.  Once the load is Done and nothing is
\* outstanding, every other mounted consumer of the namespace that was read
\* has the value of the cache entry of that namespace (a dispatch made
\* after Done reaches every handle, so an entry that differs from a handle
\* is the entry as of Done).
C16_InFlightMountersCatchUp ==
    (STATE_READ /\ Quiescent)
        => \A c \in Consumers \ {1} :
              (Mounted(c) /\ hooks[c].file = hooks[1].file)
                  => HandleValue(hooks[c].file, hooks[c].state)
                         = HandleValue(hooks[c].file,
                                       persisted[hooks[c].file])

\* C17: cache validity.  In every reachable state the cache entry of every
\* namespace is absent or a value the validator of the namespace accepts;
\* a raw backend value that fails validation is never in the cache.
C17_CacheValid ==
    \A n \in Files : persisted[n] = Undef \/ safeParse(n, persisted[n]).success

\* the load has settled on a namespace whose backend value is corrupt, and
\* the cache entry of that namespace holds a value that was merged in
C17_Witness ==
    /\ STATE_READ
    /\ \E n \in Files :
          /\ disk[n] = Corrupt
          /\ persisted[n] = [f |-> 1, g |-> 1]
          /\ \E c \in Consumers : Mounted(c) /\ hooks[c].file = n

\* C18: the lost-update hazard.  A failed write puts its captured previous
\* value back whatever was dispatched on the namespace in the meantime, and
\* a write whose adapter call succeeded returns true with its value in the
\* backend; so a failing write A overlapping a succeeding write B leaves
\* A's previous value in the cache and B's value in the backend.
C18_RollbackClobbers ==
    event.op = "writeReturn" =>
        IF event.adapterOk
        THEN event.result = "true" /\ disk[event.file] = event.data
        ELSE event.result = "false"
                 /\ persisted[event.file] = event.previousState

\* only two calls were made, writes A of {f:0,g:1} and then B of {f:1,g:0}
\* on one namespace, B committed while A was pending; the adapter call of B
\* succeeded and that of A failed last
C18_Witness ==
    /\ calls = 2
    /\ \A c \in Consumers : hooks[c].phase = "new"
    /\ \A i \in CallIds : tasks[i] = NoTask
    /\ event.op = "writeReturn"
    /\ ~event.adapterOk
    /\ ~event.clean
    /\ event.data = V2
    /\ disk[event.file] = V1
    /\ V1 \in good[event.file]
    /\ persisted[event.file] = event.previousState
    /\ persisted[event.file] # V1

\* what a consumer of n sees for the entry x: the default stands for an
\* absent entry, null and undefined are both "absent"
Seen(n, x) == Coalesce(HandleValue(n, x))

\* C19: convergence without failures.  In a run without adapter failures,
\* once the initial load of namespace n is Done and nothing is outstanding,
\* the cache entry of n equals what the backend stores for n, a stored
\* value the validator rejects counting as absent.  n is the namespace all
\* consumers used, so it is the one the initial load read.
C19_Convergence ==
    (STATE_READ /\ Quiescent)
        => \A n \in Files :
              (\A c \in Consumers :
                   hooks[c].phase # "new" => hooks[c].file = n)
                  => Seen(n, persisted[n])
                         = Seen(n, AfterRead(n, disk[n], "none").result)

\* C20: the load always settles.  Once the read issued by the load effect
\* has settled, with whatever outcome, the load state is Done.  (Only the
\* continuation of that read sets STATE_READ and the guard never issues
\* another read while STATE_LOCKED is set, so a state with the read settled
\* and the load state InFlight stays InFlight for ever.)
C20_LoadSettles ==
    (STATE_LOCKED /\ \A c \in Consumers : hooks[c].loads = 0) => STATE_READ

====
